---- MODULE Spec2Model ----
(***************************************************************************)
(* Guild state synchronisation of the Discord bot: the RoleSync cog        *)
(* (src/src/cogs/role_sync.py) and the MemberSync cog                      *)
(* (src/src/cogs/member_sync.py).                                          *)
(*                                                                         *)
(* Every listener, command and the periodic loop is a task on one asyncio  *)
(* event loop.  A task runs without interruption from one await to the     *)
(* next.  The awaits at which the model suspends a task are ctx.defer() of *)
(* the commands and client.post() of the three _sync_* methods; the        *)
(* replies (ctx.respond, ctx.edit) are taken with the code around them.    *)
(*                                                                         *)
(* MemberSync is modelled as a loaded cog, although the COGS list of       *)
(* src/main.py does not name it.  The remote store is the service behind   *)
(* the three endpoints; it is modelled from its interface.                 *)
(***************************************************************************)
EXTENDS Integers, Sequences, FiniteSets, TLC

VARIABLES
    guild_id,      \* RoleSync.guild_id / MemberSync.guild_id: DISCORD_GUILD_ID
    botGuilds,     \* bot.guilds: ids of the guilds the bot is connected to
    roles,         \* guild.roles of each guild: a set of role objects
    memberRoles,   \* member.roles of the one tracked member of each guild
    tasks,         \* the suspended tasks: LoopTask and the slots 1..MaxTasks
    finished,      \* the task that ended last, as it ended
    loop,          \* state of the tasks.Loop periodic_role_sync
    botReady,      \* bot.is_ready(): what wait_until_ready() waits for
    unloaded,      \* cog_unload has been called: listeners are removed
    remoteRoles,   \* the remote store's role table
    remoteMember,  \* the remote store's role ids of the tracked member
    nEvents,       \* events and commands delivered so far
    nTicks         \* bodies of the periodic loop run so far

vars == <<guild_id, botGuilds, roles, memberRoles, tasks, finished, loop, botReady,
          unloaded, remoteRoles, remoteMember, nEvents, nTicks>>

----------------------------------------------------------------------------
(* Bounds of the model. *)

MaxTasks == 2
MaxEvents == 2
MaxTicks == 1
MaxUpdates == 1
MaxLen == 2

----------------------------------------------------------------------------
(* Values. *)

\* The two guilds of the model; the tracked member of a guild.
GuildA == 17
GuildB == 42
Guilds == {GuildA, GuildB}
NoGuild == 0            \* ctx.guild is None: a command used outside a server
MemberId == 7

\* str(n) of a positive integer, as the sequence of its decimal digits.
RECURSIVE Str(_)
Str(n) == IF n < 10 THEN <<n>> ELSE Append(Str(n \div 10), n % 10)

\* os.getenv("DISCORD_GUILD_ID", ""): the id of GuildA, or unset.
ConfiguredIds == {Str(GuildA), <<>>}

LoopTask == 0
Slots == 1..MaxTasks
TaskIds == {LoopTask} \cup Slots

NoRole == [id |-> 0, name |-> "", color |-> 0, position |-> 0,
           managed |-> FALSE, mentionable |-> FALSE]

\* The roles a guild can hold.  Role 1 is the guild's first role, role 2 can
\* be created and deleted; role 3 is the role of the other guild.
Names == {"Cat A", "Category A"}
RoleValues(i) == [id : {i}, name : Names, color : {0, 1}, position : {1, 2},
                  managed : BOOLEAN, mentionable : BOOLEAN]
BaseRole(i) == [id |-> i, name |-> "Cat A", color |-> 0, position |-> i,
                managed |-> FALSE, mentionable |-> FALSE]
RoleFields == {"name", "color", "position", "managed", "mentionable"}

\* The role with the fields in ch changed to their other value.
Changed(r, ch) ==
    [id |-> r.id,
     name |-> IF "name" \in ch
              THEN (IF r.name = "Cat A" THEN "Category A" ELSE "Cat A")
              ELSE r.name,
     color |-> IF "color" \in ch THEN 1 - r.color ELSE r.color,
     position |-> IF "position" \in ch THEN 3 - r.position ELSE r.position,
     managed |-> IF "managed" \in ch THEN ~r.managed ELSE r.managed,
     mentionable |-> IF "mentionable" \in ch THEN ~r.mentionable
                     ELSE r.mentionable]

----------------------------------------------------------------------------
(* Python values. *)

\* A dict with string keys and integer values, as the set of its items.
EmptyDict == {}
HasKey(d, k) == \E p \in d : p[1] = k
Get(d, k, default) ==
    IF HasKey(d, k) THEN (CHOOSE p \in d : p[1] = k)[2] ELSE default

\* The value a _sync_* method returns: None, or the decoded response body.
None == [isNone |-> TRUE, dict |-> EmptyDict]
Dict(d) == [isNone |-> FALSE, dict |-> d]

\* bool(result) as `if result:` evaluates it: None and {} are false.
Truthy(result) == ~result.isNone /\ result.dict # EmptyDict

\* set(xs) of a list.
ToSet(xs) == {xs[i] : i \in DOMAIN xs}

\* A logfire record; status_code is 0 when the record carries none.
Log(level, msg, code) == [level |-> level, msg |-> msg, status_code |-> code]

\* What a command tells its caller: the text, and the numbers formatted into it.
Reply(text, args) == [text |-> text, args |-> args]

----------------------------------------------------------------------------
(* The remote call. *)

\* The per-call timeouts, in seconds.
GuildRolesTimeout == 30
UserRolesTimeout == 10
GuildMembersTimeout == 60

NoReq == [endpoint |-> "", member |-> 0, roles |-> <<>>, role_ids |-> <<>>,
          members |-> <<>>, timeout |-> 0]

\* How an awaited client.post() ends: a response with a status code and a
\* body, httpx.TimeoutException, or another httpx.RequestError.
StatusCodes == {200, 404, 500}
Bodies == {"result", "empty_object", "not_json"}
Outcomes ==
    [kind : {"response"}, status_code : {200}, body : Bodies]
    \cup [kind : {"response"}, status_code : StatusCodes \ {200}, body : {"text"}]
    \cup [kind : {"timeout", "request_error"}, status_code : {0}, body : {""}]
NoOutcome == [kind |-> "", status_code |-> 0, body |-> ""]

\* guild.roles: the roles of the guild in the order discord.py keeps them,
\* by position and then by id.
RoleBefore(a, b) ==
    a.position < b.position \/ (a.position = b.position /\ a.id < b.id)
SortedRoles(S) ==
    CHOOSE q \in [1..Cardinality(S) -> S] :
        /\ \A i, j \in 1..Cardinality(S) : i < j => RoleBefore(q[i], q[j])

----------------------------------------------------------------------------
(* The remote store: the external service behind the three endpoints. *)

\* The counts a full replace of the role table by the posted list reports.
RolesReplaceBody(store, posted) ==
    LET old == {r.id : r \in store}
        new == {r.id : r \in posted}
    IN  {<<"created", Cardinality(new \ old)>>,
         <<"updated", Cardinality({r \in posted : r.id \in old /\ r \notin store})>>,
         <<"deleted", Cardinality(old \ new)>>,
         <<"total", Cardinality(new)>>}

UserRolesBody(role_ids) == {<<"roles_synced", Cardinality(ToSet(role_ids))>>}

MembersBody(members) ==
    {<<"created", 0>>, <<"updated", Len(members)>>, <<"rejoined", 0>>,
     <<"left", 0>>, <<"linked", 0>>, <<"total_active", Len(members)>>}

\* The decoded body of a 200 response to the request.
ResponseBody(req, o) ==
    IF o.body # "result" THEN EmptyDict
    ELSE IF req.endpoint = "/sync_guild_roles"
         THEN RolesReplaceBody(remoteRoles, ToSet(req.roles))
    ELSE IF req.endpoint = "/sync_user_roles"
         THEN UserRolesBody(req.role_ids)
    ELSE MembersBody(req.members)

\* The store after it has served the request with this outcome.
Served(req, o) ==
    /\ remoteRoles' =
         IF req.endpoint = "/sync_guild_roles" /\ o.body = "result"
         THEN ToSet(req.roles) ELSE remoteRoles
    /\ remoteMember' =
         IF req.endpoint = "/sync_user_roles" /\ o.body = "result"
         THEN ToSet(req.role_ids) ELSE remoteMember

----------------------------------------------------------------------------
(* The three methods of the Sync Client.  Each is split at its one await:  *)
(* the request it posts, and what it does with the outcome of the post.    *)

RoleJson(r) == [id |-> Str(r.id), name |-> r.name, color |-> r.color,
                position |-> r.position, managed |-> r.managed,
                mentionable |-> r.mentionable]

\* Mutant: guild.roles[1:], the list without its first role.
RolesDataWithoutFirst(guildRoles) ==
    LET q == SortedRoles(guildRoles)
    IN  [i \in 1..(Len(q) - 1) |-> RoleJson(q[i + 1])]

\* roles_data of _sync_guild_roles: one entry per role of guild.roles.
RolesData(guildRoles) ==
    LET q == SortedRoles(guildRoles) IN [i \in DOMAIN q |-> RoleJson(q[i])]

GuildRolesRequest(guildRoles) ==
    [NoReq EXCEPT !.endpoint = "/sync_guild_roles",
                  !.roles = RolesData(guildRoles),
                  !.timeout = GuildRolesTimeout]

\* role_ids of _sync_user_roles: str(role.id) for each role of member.roles.
RoleIds(rs) == [i \in DOMAIN rs |-> Str(rs[i])]

UserRolesRequest(member_roles) ==
    [NoReq EXCEPT !.endpoint = "/sync_user_roles", !.member = MemberId,
                  !.role_ids = RoleIds(member_roles),
                  !.timeout = UserRolesTimeout]

\* members_data of _sync_guild_members: the tracked member of the guild.
MembersData(member_roles) ==
    <<[discord_id |-> Str(MemberId), roles |-> RoleIds(member_roles)]>>

GuildMembersRequest(member_roles) ==
    [NoReq EXCEPT !.endpoint = "/sync_guild_members",
                  !.members = MembersData(member_roles),
                  !.timeout = GuildMembersTimeout]

\* What a method does once its post has ended: it raises, or it returns
\* `result` after emitting `logs`.
Returned(result, logs) == [raised |-> FALSE, result |-> result, logs |-> logs]
Raised == [raised |-> TRUE, result |-> None, logs |-> <<>>]

\* Mutant: a 404 is returned silently, as _sync_user_roles does.
SyncGuildRolesEndQuiet404(o, body) ==
    IF o.kind = "response" THEN
        IF o.status_code = 200 THEN
            IF o.body = "not_json" THEN Raised
            ELSE Returned(Dict(body), <<Log("info", "Synced guild roles", 0)>>)
        ELSE IF o.status_code = 404 THEN Returned(None, <<>>)
        ELSE Returned(None, <<Log("error", "Failed to sync guild roles",
                                  o.status_code)>>)
    ELSE IF o.kind = "timeout" THEN
        Returned(None, <<Log("error", "Guild role sync timed out", 0)>>)
    ELSE Returned(None, <<Log("error", "Guild role sync request failed", 0)>>)

\* Mutant: the 200 branch logs the counts and returns nothing.
SyncGuildRolesEndNoReturn(o, body) ==
    IF o.kind = "response" THEN
        IF o.status_code = 200 THEN
            IF o.body = "not_json" THEN Raised
            ELSE Returned(None, <<Log("info", "Synced guild roles", 0)>>)
        ELSE Returned(None, <<Log("error", "Failed to sync guild roles",
                                  o.status_code)>>)
    ELSE IF o.kind = "timeout" THEN
        Returned(None, <<Log("error", "Guild role sync timed out", 0)>>)
    ELSE Returned(None, <<Log("error", "Guild role sync request failed", 0)>>)

\* _sync_guild_roles from the end of client.post().
SyncGuildRolesEnd(o, body) ==
    IF o.kind = "response" THEN
        IF o.status_code = 200 THEN
            IF o.body = "not_json" THEN Raised   \* response.json() raises
            ELSE Returned(Dict(body), <<Log("info", "Synced guild roles", 0)>>)
        ELSE Returned(None, <<Log("error", "Failed to sync guild roles",
                                  o.status_code)>>)
    ELSE IF o.kind = "timeout" THEN
        Returned(None, <<Log("error", "Guild role sync timed out", 0)>>)
    ELSE Returned(None, <<Log("error", "Guild role sync request failed", 0)>>)

\* Mutant: no branch for 404, which is then logged like any other status.
SyncUserRolesEndNo404(o, body) ==
    IF o.kind = "response" THEN
        IF o.status_code = 200 THEN
            IF o.body = "not_json" THEN Raised
            ELSE Returned(Dict(body), <<Log("info", "Synced user roles", 0)>>)
        ELSE Returned(None, <<Log("error", "Failed to sync user roles",
                                  o.status_code)>>)
    ELSE IF o.kind = "timeout" THEN
        Returned(None, <<Log("error", "User role sync timed out", 0)>>)
    ELSE Returned(None, <<Log("error", "User role sync request failed", 0)>>)

\* _sync_user_roles from the end of client.post().
SyncUserRolesEnd(o, body) ==
    IF o.kind = "response" THEN
        IF o.status_code = 200 THEN
            IF o.body = "not_json" THEN Raised
            ELSE Returned(Dict(body), <<Log("info", "Synced user roles", 0)>>)
        ELSE IF o.status_code = 404 THEN Returned(None, <<>>)
        ELSE Returned(None, <<Log("error", "Failed to sync user roles",
                                  o.status_code)>>)
    ELSE IF o.kind = "timeout" THEN
        Returned(None, <<Log("error", "User role sync timed out", 0)>>)
    ELSE Returned(None, <<Log("error", "User role sync request failed", 0)>>)

\* Mutant: every 2xx status is taken for a success.
SyncGuildMembersEndAny2xx(o, body) ==
    IF o.kind = "response" THEN
        IF o.status_code >= 200 /\ o.status_code < 300 THEN
            IF o.body = "not_json" THEN Raised
            ELSE Returned(Dict(body), <<Log("info", "Synced guild members", 0)>>)
        ELSE Returned(None, <<Log("error", "Failed to sync guild members",
                                  o.status_code)>>)
    ELSE IF o.kind = "timeout" THEN
        Returned(None, <<Log("error", "Guild member sync timed out", 0)>>)
    ELSE Returned(None, <<Log("error", "Guild member sync request failed", 0)>>)

\* _sync_guild_members from the end of client.post().
SyncGuildMembersEnd(o, body) ==
    IF o.kind = "response" THEN
        IF o.status_code = 200 THEN
            IF o.body = "not_json" THEN Raised
            ELSE Returned(Dict(body), <<Log("info", "Synced guild members", 0)>>)
        ELSE Returned(None, <<Log("error", "Failed to sync guild members",
                                  o.status_code)>>)
    ELSE IF o.kind = "timeout" THEN
        Returned(None, <<Log("error", "Guild member sync timed out", 0)>>)
    ELSE Returned(None, <<Log("error", "Guild member sync request failed", 0)>>)

SyncEnd(req, o, body) ==
    IF req.endpoint = "/sync_guild_roles" THEN SyncGuildRolesEnd(o, body)
    ELSE IF req.endpoint = "/sync_user_roles" THEN SyncUserRolesEnd(o, body)
    ELSE SyncGuildMembersEnd(o, body)

----------------------------------------------------------------------------
(* Tasks. *)

\* A task: the handler it runs (kind), where it is (pc), the guild and the
\* snapshots of the event it handles, the request it has posted, the number
\* of posts it has made, how its post ended, what the _sync_* method
\* returned, the log records it has emitted, what it told its caller and the
\* exception it ended with, if any.
NoTask == [kind |-> "", pc |-> "free", guild |-> NoGuild, exc |-> "",
           roleBefore |-> NoRole, roleAfter |-> NoRole,
           memBefore |-> <<>>, memAfter |-> <<>>,
           req |-> NoReq, posts |-> 0, outcome |-> NoOutcome,
           result |-> None, logs |-> <<>>, replies |-> <<>>]

\* A handler that has begun for an event of guild g.
Begun(kind, g) == [NoTask EXCEPT !.kind = kind, !.guild = g, !.pc = "done"]

Logged(task, level, msg) ==
    [task EXCEPT !.logs = Append(@, Log(level, msg, 0))]

\* The task suspended at the client.post() of a _sync_* method.
Posting(task, req) ==
    [task EXCEPT !.pc = "post", !.req = req, !.posts = @ + 1]

Responded(task, reply) == [task EXCEPT !.replies = Append(@, reply)]

\* ctx.edit(content=...): the last message is replaced.
Edited(task, reply) ==
    [task EXCEPT !.replies = Append(SubSeq(@, 1, Len(@) - 1), reply)]

\* A slot is taken while its task is suspended.
Suspended(task) == task.pc \in {"defer", "post"}
FreeSlots == {t \in Slots : ~Suspended(tasks[t])}
FreeSlot == CHOOSE t \in FreeSlots : \A u \in FreeSlots : t <= u

\* Task t has run to its next await, or to its end.
Ran(t, task) ==
    IF Suspended(task)
    THEN tasks' = [tasks EXCEPT ![t] = task] /\ UNCHANGED finished
    ELSE tasks' = [tasks EXCEPT ![t] = NoTask] /\ finished' = task

\* Mutant: the guild check left out of a handler.
InScopeAnyGuild(g) == g # NoGuild

\* str(guild.id) == self.guild_id
InScope(g) == Str(g) = guild_id

\* The guild the loop `for guild in self.bot.guilds` stops at, if any.
ConfiguredGuilds == {g \in botGuilds : InScope(g)}

\* periodic_role_sync.is_running()
IsRunning == loop \in {"before_loop", "sleeping", "running"}

\* periodic_role_sync.start(), called at the end of the handler `task`: the
\* loop's task is created, and a loop whose task has not ended refuses with
\* RuntimeError.  The result is the handler and the loop after the call.
Start(task) ==
    IF IsRunning
    THEN [task |-> [task EXCEPT !.pc = "raised", !.exc = "RuntimeError"],
          loop |-> loop]
    ELSE [task |-> task, loop |-> "before_loop"]

\* Mutant: start() without the is_running() guard.
StartPeriodicSyncUnguarded(task) == Start(task)

\* if not self.periodic_role_sync.is_running(): self.periodic_role_sync.start()
StartPeriodicSync(task) ==
    IF ~IsRunning THEN Start(task) ELSE [task |-> task, loop |-> loop]

\* Mutant: the loop is started inside the branch of the matching guild.
OnReadyEndInBranch(task) ==
    IF task.kind = "on_ready" /\ task.pc = "done" /\ task.guild # NoGuild
    THEN StartPeriodicSync(task)
    ELSE [task |-> task, loop |-> loop]

\* The end of on_ready, after its `for` loop: reached when the loop over
\* bot.guilds has ended, with or without a sync, and not when the sync raised
\* or is still awaited.
OnReadyEnd(task) ==
    IF task.kind = "on_ready" /\ task.pc = "done"
    THEN StartPeriodicSync(task)
    ELSE [task |-> task, loop |-> loop]

----------------------------------------------------------------------------
(* The listeners and commands of RoleSync and MemberSync, each from its    *)
(* start to its first await (or to its end when it awaits nothing).        *)

\* on_ready, up to `await self._sync_guild_roles(guild)`.
OnReady(guildRoles) ==
    LET task == Logged(Begun("on_ready", NoGuild), "info",
                       "RoleSync cog ready, syncing guild roles...")
    IN  IF ConfiguredGuilds # {}
        THEN LET g == CHOOSE g \in ConfiguredGuilds : TRUE
             IN  Posting([task EXCEPT !.guild = g],
                         GuildRolesRequest(guildRoles[g]))
        ELSE task

OnGuildRoleCreate(g, guildRoles) ==
    IF InScope(g)
    THEN Posting(Logged(Begun("on_guild_role_create", g), "info",
                        "Role created, syncing"),
                 GuildRolesRequest(guildRoles))
    ELSE Begun("on_guild_role_create", g)

\* Mutant: the role-deleted handler leaves the deletion to the next tick.
OnGuildRoleDeleteDeferred(g, guildRoles) ==
    IF InScope(g)
    THEN Logged(Begun("on_guild_role_delete", g), "info", "Role deleted")
    ELSE Begun("on_guild_role_delete", g)

OnGuildRoleDelete(g, guildRoles) ==
    IF InScope(g)
    THEN Posting(Logged(Begun("on_guild_role_delete", g), "info",
                        "Role deleted, syncing"),
                 GuildRolesRequest(guildRoles))
    ELSE Begun("on_guild_role_delete", g)

\* Mutant: the position left out of the condition.
RoleShouldSyncNoPosition(before, after) ==
    before.name # after.name \/ before.color # after.color

\* The condition of on_guild_role_update.
RoleShouldSync(before, after) ==
    \/ before.name # after.name
    \/ before.color # after.color
    \/ before.position # after.position

OnGuildRoleUpdate(g, before, after, guildRoles) ==
    LET task == [Begun("on_guild_role_update", g) EXCEPT
                    !.roleBefore = before, !.roleAfter = after]
    IN  IF ~InScope(g) THEN task
        ELSE IF RoleShouldSync(before, after)
        THEN Posting(Logged(task, "info", "Role updated, syncing"),
                     GuildRolesRequest(guildRoles))
        ELSE task

\* on_guild_role_update called with None for `before`: past the guild check,
\* `before.name` raises AttributeError.
OnGuildRoleUpdateNoBefore(g, after, guildRoles) ==
    LET task == [Begun("on_guild_role_update", g) EXCEPT !.roleAfter = after]
    IN  IF ~InScope(g) THEN task
        ELSE [task EXCEPT !.pc = "raised", !.exc = "AttributeError"]

\* Mutant: the role lists compared as lists.
MemberShouldSyncAsLists(before, after) == before # after

\* The condition of on_member_update: set(before.roles) != set(after.roles).
MemberShouldSync(before, after) == ToSet(before) # ToSet(after)

\* Mutant: a member update that arrives during a full-guild sync is dropped.
OnMemberUpdateGated(g, before, after) ==
    LET task == [Begun("on_member_update", g) EXCEPT
                    !.memBefore = before, !.memAfter = after]
        busy == \E t \in TaskIds : /\ tasks[t].pc = "post"
                                   /\ tasks[t].req.endpoint = "/sync_guild_roles"
    IN  IF ~InScope(g) \/ busy THEN task
        ELSE IF MemberShouldSync(before, after)
        THEN Posting(Logged(task, "info", "Member roles changed, syncing"),
                     UserRolesRequest(after))
        ELSE task

OnMemberUpdate(g, before, after) ==
    LET task == [Begun("on_member_update", g) EXCEPT
                    !.memBefore = before, !.memAfter = after]
    IN  IF ~InScope(g) THEN task
        ELSE IF MemberShouldSync(before, after)
        THEN Posting(Logged(task, "info", "Member roles changed, syncing"),
                     UserRolesRequest(after))
        ELSE task

\* on_member_update called with None for `before`: past the guild check,
\* `before.roles` raises AttributeError.
OnMemberUpdateNoBefore(g, after) ==
    LET task == [Begun("on_member_update", g) EXCEPT !.memAfter = after]
    IN  IF ~InScope(g) THEN task
        ELSE [task EXCEPT !.pc = "raised", !.exc = "AttributeError"]

\* Mutant: the loop syncs the first guild of bot.guilds, whatever its id.
PeriodicRoleSyncFirstGuild(guildRoles) ==
    IF botGuilds # {}
    THEN LET g == CHOOSE g \in botGuilds : \A h \in botGuilds : h <= g
         IN  Posting(Logged(Begun("periodic_role_sync", g), "info",
                            "Periodic guild role sync..."),
                     GuildRolesRequest(guildRoles[g]))
    ELSE Begun("periodic_role_sync", NoGuild)

\* Mutant: the loop syncs the roles of the member, not those of the guild.
PeriodicRoleSyncOfMember(guildRoles) ==
    IF ConfiguredGuilds # {}
    THEN LET g == CHOOSE g \in ConfiguredGuilds : TRUE
         IN  Posting(Logged(Begun("periodic_role_sync", g), "info",
                            "Periodic guild role sync..."),
                     UserRolesRequest(memberRoles[g]))
    ELSE Begun("periodic_role_sync", NoGuild)

\* The body of periodic_role_sync, up to its await.
PeriodicRoleSync(guildRoles) ==
    IF ConfiguredGuilds # {}
    THEN LET g == CHOOSE g \in ConfiguredGuilds : TRUE
         IN  Posting(Logged(Begun("periodic_role_sync", g), "info",
                            "Periodic guild role sync..."),
                     GuildRolesRequest(guildRoles[g]))
    ELSE Begun("periodic_role_sync", NoGuild)

\* A command, suspended at `await ctx.defer(ephemeral=True)`.
Deferred(kind, g) == [Begun(kind, g) EXCEPT !.pc = "defer"]

ServerOnly == Reply("This command can only be used in a server.", <<>>)
ConfiguredOnly ==
    Reply("This command can only be used in the configured guild.", <<>>)

\* Mutant: the commands check for a guild, not for the configured guild.
AfterDeferAnyGuild(task, guildRoles, member_roles) ==
    LET ran == [task EXCEPT !.pc = "done"]
    IN  IF task.guild = NoGuild THEN Responded(ran, ServerOnly)
        ELSE IF task.kind = "sync_roles_command"
        THEN Posting(ran, GuildRolesRequest(guildRoles))
        ELSE IF task.kind = "sync_my_roles_command"
        THEN Posting(ran, UserRolesRequest(member_roles))
        ELSE Posting(Responded(Logged(ran, "info", "Syncing guild members"),
                               Reply("Starting member sync", <<1>>)),
                     GuildMembersRequest(member_roles))

\* A command from the end of ctx.defer() to its post, or to its end.
AfterDefer(task, guildRoles, member_roles) ==
    LET ran == [task EXCEPT !.pc = "done"]
    IN  IF task.guild = NoGuild THEN Responded(ran, ServerOnly)
        ELSE IF ~InScope(task.guild) THEN Responded(ran, ConfiguredOnly)
        ELSE IF task.kind = "sync_roles_command"
        THEN Posting(ran, GuildRolesRequest(guildRoles))
        ELSE IF task.kind = "sync_my_roles_command"
        THEN Posting(ran, UserRolesRequest(member_roles))
        ELSE Posting(Responded(Logged(ran, "info", "Syncing guild members"),
                               Reply("Starting member sync", <<1>>)),
                     GuildMembersRequest(member_roles))

\* The rest of a handler once its _sync_* method has returned `result`.
AfterSync(task, result) ==
    LET ran == [task EXCEPT !.pc = "done", !.result = result]
    IN  IF task.kind = "sync_roles_command" THEN
            IF Truthy(result)
            THEN Responded(ran, Reply("Role sync complete!",
                     <<Get(result.dict, "created", 0),
                       Get(result.dict, "updated", 0),
                       Get(result.dict, "deleted", 0),
                       Get(result.dict, "total", 0)>>))
            ELSE Responded(ran,
                     Reply("Role sync failed. Check bot logs for details.", <<>>))
        ELSE IF task.kind = "sync_my_roles_command" THEN
            IF Truthy(result)
            THEN Responded(ran, Reply("Your roles have been synced!", <<>>))
            ELSE Responded(ran, Reply("Could not sync your roles. Make sure you have an account on the team website.", <<>>))
        ELSE IF task.kind = "sync_members_command" THEN
            IF Truthy(result)
            THEN Edited(ran, Reply("Member sync complete!",
                     <<Get(result.dict, "created", 0),
                       Get(result.dict, "updated", 0),
                       Get(result.dict, "rejoined", 0),
                       Get(result.dict, "left", 0),
                       Get(result.dict, "linked", 0),
                       Get(result.dict, "total_active", 0)>>))
            ELSE Edited(ran,
                     Reply("Member sync failed. Check bot logs for details.", <<>>))
        ELSE ran

\* Mutant: a post that timed out is made once more.
ResumedWithRetry(task, o, body) ==
    LET end == SyncEnd(task.req, o, body)
        got == [task EXCEPT !.outcome = o, !.logs = @ \o end.logs]
    IN  IF end.raised
        THEN [got EXCEPT !.pc = "raised", !.exc = "JSONDecodeError"]
        ELSE IF o.kind = "timeout" /\ task.posts < 2
        THEN Posting(got, task.req)
        ELSE AfterSync(got, end.result)

\* A task resumed when its client.post() has ended with outcome o.
Resumed(task, o, body) ==
    LET end == SyncEnd(task.req, o, body)
        got == [task EXCEPT !.outcome = o, !.logs = @ \o end.logs]
    IN  IF end.raised
        THEN [got EXCEPT !.pc = "raised", !.exc = "JSONDecodeError"]
        ELSE AfterSync(got, end.result)

----------------------------------------------------------------------------
(* The inputs of the environment. *)

\* The field sets a role update changes, and the role lists a member update
\* leaves the member with.
RoleChanges == {{}, {"name"}, {"mentionable"}}
MemberLists == {<<1>>, <<1, 2>>}

\* The role a guild gains by a role-created event.
NewRole(g) == IF g = GuildA THEN BaseRole(2) ELSE BaseRole(3)

InitRoles == [g \in Guilds |-> IF g = GuildA THEN {BaseRole(1)} ELSE {}]
InitMemberRoles == [g \in Guilds |-> <<1>>]

----------------------------------------------------------------------------
(* Actions. *)

CanDeliver == nEvents < MaxEvents /\ ~unloaded /\ FreeSlots # {}

\* An event or command is delivered: its handler runs in a free slot.
Deliver(task) ==
    /\ Ran(FreeSlot, task)
    /\ nEvents' = nEvents + 1
    /\ UNCHANGED nTicks

\* The gateway reports ready; on_ready runs to its await, or to its end.
Ready ==
    /\ CanDeliver
    /\ botReady' = TRUE
    /\ LET task == OnReady(roles)
           end == OnReadyEnd(task)
       IN  /\ Deliver(end.task)
           /\ loop' = end.loop
    /\ UNCHANGED <<guild_id, botGuilds, roles, memberRoles, unloaded,
                   remoteRoles, remoteMember>>

RoleCreated(g) ==
    /\ CanDeliver
    /\ g \in botGuilds
    /\ NewRole(g).id \notin {r.id : r \in roles[g]}
    /\ roles' = [roles EXCEPT ![g] = @ \cup {NewRole(g)}]
    /\ Deliver(OnGuildRoleCreate(g, roles'[g]))
    /\ UNCHANGED <<guild_id, botGuilds, memberRoles, loop, botReady, unloaded,
                   remoteRoles, remoteMember>>

RoleDeleted(g, r) ==
    /\ CanDeliver
    /\ g \in botGuilds
    /\ r \in roles[g]
    /\ r.id = NewRole(g).id
    /\ roles' = [roles EXCEPT ![g] = @ \ {r}]
    /\ Deliver(OnGuildRoleDelete(g, roles'[g]))
    /\ UNCHANGED <<guild_id, botGuilds, memberRoles, loop, botReady, unloaded,
                   remoteRoles, remoteMember>>

RoleUpdated(g, r, ch) ==
    /\ CanDeliver
    /\ g \in botGuilds
    /\ r \in roles[g]
    /\ roles' = [roles EXCEPT ![g] = (@ \ {r}) \cup {Changed(r, ch)}]
    /\ Deliver(OnGuildRoleUpdate(g, r, Changed(r, ch), roles'[g]))
    /\ UNCHANGED <<guild_id, botGuilds, memberRoles, loop, botReady, unloaded,
                   remoteRoles, remoteMember>>

MemberUpdated(g, after) ==
    /\ CanDeliver
    /\ g \in botGuilds
    /\ memberRoles' = [memberRoles EXCEPT ![g] = after]
    /\ Deliver(OnMemberUpdate(g, memberRoles[g], after))
    /\ UNCHANGED <<guild_id, botGuilds, roles, loop, botReady, unloaded,
                   remoteRoles, remoteMember>>

\* /sync_roles, /sync_my_roles or /sync_members is invoked in guild g, or
\* outside any guild.
CommandInvoked(kind, g) ==
    /\ CanDeliver
    /\ g \in botGuilds \cup {NoGuild}
    /\ Deliver(Deferred(kind, g))
    /\ UNCHANGED <<guild_id, botGuilds, roles, memberRoles, loop, botReady,
                   unloaded, remoteRoles, remoteMember>>

\* ctx.defer() of the command in slot t has returned.
DeferDone(t) ==
    /\ tasks[t].pc = "defer"
    /\ LET g == tasks[t].guild
       IN  Ran(t, AfterDefer(tasks[t],
                             IF g \in Guilds THEN roles[g] ELSE {},
                             IF g \in Guilds THEN memberRoles[g] ELSE <<>>))
    /\ UNCHANGED <<guild_id, botGuilds, roles, memberRoles, loop, botReady,
                   unloaded, remoteRoles, remoteMember, nEvents, nTicks>>

\* before_periodic_sync: `await self.bot.wait_until_ready()` has returned.
BeforePeriodicSync == botReady

\* Mutant: the loop started when the cog is constructed, with no
\* before_loop hook.
LoopMayRunFromConstruction == loop \in {"idle", "before_loop", "sleeping"}

\* tasks.loop: the body runs the first time once before_periodic_sync has
\* returned, then after each interval.
LoopMayRun == loop = "sleeping" \/ (loop = "before_loop" /\ BeforePeriodicSync)

RunLoopBody ==
    /\ LoopMayRun
    /\ LET task == PeriodicRoleSync(roles)
       IN  /\ Ran(LoopTask, task)
           /\ loop' = IF task.pc = "post" THEN "running" ELSE "sleeping"
    /\ UNCHANGED <<guild_id, botGuilds, roles, memberRoles, botReady, unloaded,
                   remoteRoles, remoteMember, nEvents>>

Tick ==
    /\ nTicks < MaxTicks
    /\ RunLoopBody
    /\ nTicks' = nTicks + 1

\* The loop after the return of the handler of task t: on_ready starts the
\* loop; the loop's own body returns to the interval wait, or ends the loop
\* when it raised.
LoopAfter(t, task) ==
    IF t = LoopTask
    THEN [task |-> task,
          loop |-> IF task.pc = "raised" THEN "failed" ELSE "sleeping"]
    ELSE OnReadyEnd(task)

\* The post of task t ends with outcome o; the task runs to its end.
Respond(t, o) ==
    /\ tasks[t].pc = "post"
    /\ LET req == tasks[t].req
           end == LoopAfter(t, Resumed(tasks[t], o, ResponseBody(req, o)))
       IN  /\ Ran(t, end.task)
           /\ loop' = end.loop
           /\ Served(req, o)
    /\ UNCHANGED <<guild_id, botGuilds, roles, memberRoles, botReady,
                   unloaded, nEvents, nTicks>>

\* cog_unload: periodic_role_sync.cancel().  The listeners and commands of
\* the cog are removed; a body of the loop suspended at its post is cancelled.
Unload ==
    /\ ~unloaded
    /\ unloaded' = TRUE
    /\ loop' = IF IsRunning THEN "cancelled" ELSE loop
    /\ IF tasks[LoopTask].pc = "post"
       THEN Ran(LoopTask, [tasks[LoopTask] EXCEPT !.pc = "cancelled",
                                                  !.exc = "CancelledError"])
       ELSE UNCHANGED <<tasks, finished>>
    /\ UNCHANGED <<guild_id, botGuilds, roles, memberRoles, botReady,
                   remoteRoles, remoteMember, nEvents, nTicks>>

Commands == {"sync_roles_command", "sync_my_roles_command",
             "sync_members_command"}

Init ==
    /\ guild_id \in ConfiguredIds
    /\ botGuilds \in {{GuildA, GuildB}, {GuildB}}
    /\ roles = InitRoles
    /\ memberRoles = InitMemberRoles
    /\ tasks = [t \in TaskIds |-> NoTask]
    /\ finished = NoTask
    /\ loop = "idle"
    /\ botReady = FALSE
    /\ unloaded = FALSE
    /\ remoteRoles = {}
    /\ remoteMember = {}
    /\ nEvents = 0
    /\ nTicks = 0

Next ==
    \/ Ready
    \/ \E g \in Guilds : RoleCreated(g)
    \/ \E g \in Guilds : \E r \in roles[g] : RoleDeleted(g, r)
    \/ \E g \in Guilds : \E r \in roles[g] : \E ch \in RoleChanges :
           RoleUpdated(g, r, ch)
    \/ \E g \in Guilds : \E after \in MemberLists : MemberUpdated(g, after)
    \/ \E kind \in Commands : \E g \in Guilds \cup {NoGuild} :
           CommandInvoked(kind, g)
    \/ \E t \in Slots : DeferDone(t)
    \/ Tick
    \/ \E t \in TaskIds : \E o \in Outcomes : Respond(t, o)
    \/ Unload

Spec == Init /\ [][Next]_vars

----------------------------------------------------------------------------
(* on_guild_role_update alone, on every pair of role snapshots: the role   *)
(* starts with any value and an update changes any set of its fields.      *)

InitRoleDiff ==
    /\ guild_id = Str(GuildA)
    /\ botGuilds = Guilds
    /\ \E r \in RoleValues(1) : roles = [InitRoles EXCEPT ![GuildA] = {r}]
    /\ memberRoles = InitMemberRoles
    /\ tasks = [t \in TaskIds |-> NoTask]
    /\ finished = NoTask
    /\ loop = "idle"
    /\ botReady = FALSE
    /\ unloaded = FALSE
    /\ remoteRoles = {}
    /\ remoteMember = {}
    /\ nEvents = 0
    /\ nTicks = 0

DiffOutcomes == {o \in Outcomes : o.body = "result" \/ o.kind = "timeout"}

NextRoleDiff ==
    \/ /\ nEvents < MaxUpdates
       /\ \E r \in roles[GuildA] : \E ch \in SUBSET RoleFields :
              RoleUpdated(GuildA, r, ch)
    \/ \E t \in Slots : \E o \in DiffOutcomes : Respond(t, o)

SpecRoleDiff == InitRoleDiff /\ [][NextRoleDiff]_vars

----------------------------------------------------------------------------
(* on_member_update alone, on every pair of role lists of at most MaxLen   *)
(* entries, in any order and with repetitions.                             *)

RoleLists == UNION {[1..n -> {1, 2}] : n \in 0..MaxLen}

InitMemberDiff ==
    /\ guild_id = Str(GuildA)
    /\ botGuilds = Guilds
    /\ roles = InitRoles
    /\ \E before \in RoleLists :
           memberRoles = [InitMemberRoles EXCEPT ![GuildA] = before]
    /\ tasks = [t \in TaskIds |-> NoTask]
    /\ finished = NoTask
    /\ loop = "idle"
    /\ botReady = FALSE
    /\ unloaded = FALSE
    /\ remoteRoles = {}
    /\ remoteMember = {}
    /\ nEvents = 0
    /\ nTicks = 0

NextMemberDiff ==
    \/ /\ nEvents < MaxUpdates
       /\ \E after \in RoleLists : MemberUpdated(GuildA, after)
    \/ \E t \in Slots : \E o \in Outcomes : Respond(t, o)

SpecMemberDiff == InitMemberDiff /\ [][NextMemberDiff]_vars

----------------------------------------------------------------------------
(* The bot left running in the configured guild: the gateway reports ready, *)
(* the roles of the guild change a bounded number of times, posts end in    *)
(* any way, and the loop goes on for as long as its task lives.            *)

\* The loop's body runs once more; the hourly interval never runs out.
TickAgain == RunLoopBody /\ UNCHANGED nTicks

\* The service answers 200 with the body the endpoint documents.
Success == [kind |-> "response", status_code |-> 200, body |-> "result"]

InitConverge ==
    /\ guild_id = Str(GuildA)
    /\ botGuilds = Guilds
    /\ roles = InitRoles
    /\ memberRoles = InitMemberRoles
    /\ tasks = [t \in TaskIds |-> NoTask]
    /\ finished = NoTask
    /\ loop = "idle"
    /\ botReady = FALSE
    /\ unloaded = FALSE
    /\ remoteRoles = {}
    /\ remoteMember = {}
    /\ nEvents = 0
    /\ nTicks = 0

NextConverge ==
    \/ Ready
    \/ RoleCreated(GuildA)
    \/ \E r \in roles[GuildA] : RoleDeleted(GuildA, r)
    \/ \E r \in roles[GuildA] : \E ch \in RoleChanges :
           RoleUpdated(GuildA, r, ch)
    \/ TickAgain
    \/ \E t \in TaskIds : \E o \in Outcomes : Respond(t, o)

\* tasks.loop(hours=1) runs the body every hour while the loop's task lives,
\* and every post ends: with a response, or by its timeout.
FairConverge ==
    /\ WF_vars(TickAgain)
    /\ \A t \in TaskIds : WF_vars(\E o \in Outcomes : Respond(t, o))

SpecConverge == InitConverge /\ [][NextConverge]_vars /\ FairConverge

----------------------------------------------------------------------------
(* The three _sync_* methods on every kind of outcome: one event or command *)
(* at a time reaches each method, and its post ends with any status.       *)

\* Statuses other than 200 and 404 that a service answers with.
RejectedCodes == {201, 204, 301, 400, 401, 403, 409, 429, 500, 502, 503}

ClassifyOutcomes ==
    {Success}
    \cup [kind : {"response"}, status_code : RejectedCodes \cup {404},
          body : {"text"}]
    \cup [kind : {"timeout", "request_error"}, status_code : {0}, body : {""}]

InitClassify ==
    /\ guild_id = Str(GuildA)
    /\ botGuilds = Guilds
    /\ roles = InitRoles
    /\ memberRoles = InitMemberRoles
    /\ tasks = [t \in TaskIds |-> NoTask]
    /\ finished = NoTask
    /\ loop = "idle"
    /\ botReady = FALSE
    /\ unloaded = FALSE
    /\ remoteRoles = {}
    /\ remoteMember = {}
    /\ nEvents = 0
    /\ nTicks = 0

NextClassify ==
    \/ /\ nEvents < MaxUpdates
       /\ \/ Ready
          \/ RoleCreated(GuildA)
          \/ \E r \in roles[GuildA] : \E ch \in RoleChanges :
                 RoleUpdated(GuildA, r, ch)
          \/ \E after \in MemberLists : MemberUpdated(GuildA, after)
          \/ \E kind \in Commands : CommandInvoked(kind, GuildA)
    \/ \E t \in Slots : DeferDone(t)
    \/ \E t \in Slots : \E o \in ClassifyOutcomes : Respond(t, o)

SpecClassify == InitClassify /\ [][NextClassify]_vars

----------------------------------------------------------------------------
(* The two update listeners called without a before snapshot: the role or  *)
(* the member has any value, and the notification carries only `after`.    *)

RoleUpdatedNoBefore(g, r, ch) ==
    /\ CanDeliver
    /\ g \in botGuilds
    /\ r \in roles[g]
    /\ roles' = [roles EXCEPT ![g] = (@ \ {r}) \cup {Changed(r, ch)}]
    /\ Deliver(OnGuildRoleUpdateNoBefore(g, Changed(r, ch), roles'[g]))
    /\ UNCHANGED <<guild_id, botGuilds, memberRoles, loop, botReady, unloaded,
                   remoteRoles, remoteMember>>

MemberUpdatedNoBefore(g, after) ==
    /\ CanDeliver
    /\ g \in botGuilds
    /\ memberRoles' = [memberRoles EXCEPT ![g] = after]
    /\ Deliver(OnMemberUpdateNoBefore(g, after))
    /\ UNCHANGED <<guild_id, botGuilds, roles, loop, botReady, unloaded,
                   remoteRoles, remoteMember>>

InitNoBefore ==
    /\ guild_id = Str(GuildA)
    /\ botGuilds = Guilds
    /\ \E r \in RoleValues(1) : roles = [InitRoles EXCEPT ![GuildA] = {r}]
    /\ memberRoles = InitMemberRoles
    /\ tasks = [t \in TaskIds |-> NoTask]
    /\ finished = NoTask
    /\ loop = "idle"
    /\ botReady = FALSE
    /\ unloaded = FALSE
    /\ remoteRoles = {}
    /\ remoteMember = {}
    /\ nEvents = 0
    /\ nTicks = 0

NextNoBefore ==
    \/ \E g \in Guilds : \E r \in roles[g] : \E ch \in SUBSET RoleFields :
           nEvents < MaxUpdates /\ RoleUpdatedNoBefore(g, r, ch)
    \/ \E g \in Guilds : \E after \in RoleLists \ {<<>>} :
           nEvents < MaxUpdates /\ MemberUpdatedNoBefore(g, after)

SpecNoBefore == InitNoBefore /\ [][NextNoBefore]_vars

----------------------------------------------------------------------------
(* What the properties speak of. *)

\* The tasks a state shows: the suspended ones and the one that ended last.
Observed == {tasks[t] : t \in TaskIds} \cup {finished}

\* The tasks suspended at POST /sync_guild_roles.
GuildSyncsInFlight ==
    {t \in TaskIds : tasks[t].pc = "post"
                     /\ tasks[t].req.endpoint = "/sync_guild_roles"}

\* Task t posts in this step.
Posts(t) == tasks[t].pc # "post" /\ tasks'[t].pc = "post"

RoleEvents == {"on_guild_role_create", "on_guild_role_delete",
               "on_guild_role_update"}
Events == RoleEvents \cup {"on_member_update"}

HasErrorLog(x) == \E i \in DOMAIN x.logs : x.logs[i].level = "error"

\* The runs of POST /sync_user_roles/{id} that got 404, and those that failed.
NotLinkedRun(x) ==
    /\ x.req.endpoint = "/sync_user_roles"
    /\ x.outcome.kind = "response" /\ x.outcome.status_code = 404
FailedRun(x) ==
    /\ x.req.endpoint = "/sync_user_roles"
    /\ \/ x.outcome.kind \in {"timeout", "request_error"}
       \/ x.outcome.kind = "response" /\ x.outcome.status_code \notin {200, 404}

----------------------------------------------------------------------------
(* Properties. *)

\* C1: at most one POST /sync_guild_roles is in flight in every reachable
\* state, whatever triggers arrive while a full-guild sync is suspended at
\* its remote call.
C1_MutualExclusion == Cardinality(GuildSyncsInFlight) <= 1

\* C2: a full-guild sync request that arrives while a full-guild sync is in
\* flight is dropped: no step taken while a POST /sync_guild_roles is in
\* flight puts another one in flight.
C2_DropPolicy ==
    [][GuildSyncsInFlight # {} => GuildSyncsInFlight' \subseteq GuildSyncsInFlight]_vars

\* C3: a role-created, role-deleted, role-updated or member-updated event of
\* a guild whose id is not the configured one makes no remote call and emits
\* no log record; a guild-ready event makes a remote call only for a guild
\* of the bot whose id is the configured one.
C3_ScopeFilter ==
    \A x \in Observed :
        /\ (x.kind \in Events /\ Str(x.guild) # guild_id)
               => x.posts = 0 /\ x.req = NoReq /\ x.logs = <<>>
        /\ (x.kind = "on_ready" /\ x.posts > 0)
               => x.guild \in botGuilds /\ Str(x.guild) = guild_id

C3_Witness ==
    /\ guild_id = Str(GuildA)
    /\ finished.kind = "on_member_update"
    /\ finished.guild = GuildB
    /\ \E t \in Slots : tasks[t].kind = "on_ready" /\ tasks[t].pc = "post"


\* C4: for a role-updated event of the configured guild, a full-guild role
\* sync is posted if and only if before and after differ in name, color or
\* position; a pair that differs only in managed or mentionable posts
\* nothing.
C4_RoleDiff ==
    \A x \in Observed :
        (x.kind = "on_guild_role_update" /\ Str(x.guild) = guild_id) =>
            LET differs == \E f \in {"name", "color", "position"} :
                               x.roleBefore[f] # x.roleAfter[f]
            IN  /\ differs => x.posts = 1 /\ x.req.endpoint = "/sync_guild_roles"
                /\ ~differs => x.posts = 0 /\ x.req = NoReq

\* A pair that differs in managed and mentionable only has been handled.
C4_Witness ==
    /\ finished.kind = "on_guild_role_update"
    /\ finished.guild = GuildA
    /\ finished.roleAfter = Changed(finished.roleBefore,
                                    {"managed", "mentionable"})
    /\ finished.posts = 0

\* C5: for a member-updated event of the configured guild, one POST
\* /sync_user_roles/{member id} carrying the role ids of the after snapshot
\* is issued if and only if the before and after role ids differ as sets;
\* such an event never posts to /sync_guild_roles.
C5_MemberDiff ==
    \A x \in Observed :
        (x.kind = "on_member_update" /\ Str(x.guild) = guild_id) =>
            LET differs == {x.memBefore[i] : i \in DOMAIN x.memBefore}
                           # {x.memAfter[i] : i \in DOMAIN x.memAfter}
            IN  /\ differs => /\ x.posts = 1
                              /\ x.req.endpoint = "/sync_user_roles"
                              /\ x.req.member = MemberId
                              /\ x.req.role_ids
                                   = [i \in DOMAIN x.memAfter |-> Str(x.memAfter[i])]
                /\ ~differs => x.posts = 0 /\ x.req = NoReq
                /\ x.req.endpoint # "/sync_guild_roles"

\* The same set in another order and with a repetition has been handled
\* without a post.
C5_Witness ==
    /\ finished.kind = "on_member_update"
    /\ finished.memBefore = <<1, 2>>
    /\ finished.memAfter \in {<<2, 1>>, <<2, 1, 1>>}
    /\ finished.posts = 0

\* C6: every POST /sync_guild_roles carries the complete role list of the
\* guild as it is when the post is made; a renamed role is posted once,
\* with every role of the guild and under its new name.
C6_FullSnapshot ==
    /\ [][\A t \in TaskIds :
            (Posts(t) /\ tasks'[t].req.endpoint = "/sync_guild_roles") =>
                /\ ToSet(tasks'[t].req.roles)
                     = {RoleJson(r) : r \in roles'[tasks'[t].guild]}
                /\ Len(tasks'[t].req.roles)
                     = Cardinality(roles'[tasks'[t].guild])]_vars
    /\ [](\A x \in Observed :
            (/\ x.kind = "on_guild_role_update"
             /\ Str(x.guild) = guild_id
             /\ x.roleBefore.name # x.roleAfter.name) =>
                /\ x.posts = 1
                /\ \E i \in DOMAIN x.req.roles :
                       /\ x.req.roles[i].id = Str(x.roleAfter.id)
                       /\ x.req.roles[i].name = x.roleAfter.name)

\* A rename has been posted from a guild of two roles.
C6_Witness ==
    \E t \in Slots :
        /\ tasks[t].kind = "on_guild_role_update" /\ tasks[t].pc = "post"
        /\ tasks[t].roleBefore.name = "Cat A"
        /\ tasks[t].roleAfter.name = "Category A"
        /\ Len(tasks[t].req.roles) = 2

\* C7: a 404 answer to POST /sync_user_roles/{id} emits no error record,
\* for a member-updated event and for the /sync_my_roles command.
C7_NotLinkedSilent ==
    \A x \in Observed : NotLinkedRun(x) => ~HasErrorLog(x)

C7_Witness ==
    /\ NotLinkedRun(finished)
    /\ finished.kind = "sync_my_roles_command"
    /\ finished.pc = "done"

\* C8: a per-member sync that got 404 returns a result other than that of
\* one that timed out, hit a transport error or got another status, and
\* /sync_my_roles replies differently in the two cases.
C8_NotLinkedDistinct ==
    [][(NotLinkedRun(finished) /\ FailedRun(finished')) =>
          /\ finished.result # finished'.result
          /\ (/\ finished.kind = "sync_my_roles_command"
              /\ finished'.kind = "sync_my_roles_command")
                 => finished.replies # finished'.replies]_vars

\* C9: whatever the outcome of the remote call, no _sync_* method raises:
\* every handler, tick and command that posted runs to its end.
C9_FailuresAreValues ==
    \A x \in Observed : x.posts > 0 => x.pc # "raised"

\* C10: a sync request never posts twice: after a timeout, a transport
\* error or a rejected status the task ends without another post.
C10_NoRetry ==
    /\ [](\A x \in Observed : x.posts <= 1)
    /\ [][\A t \in TaskIds : tasks[t].pc = "post" => ~Posts(t)]_vars
    /\ [][\A t \in TaskIds :
            (tasks[t].pc = "post" /\ tasks'[t] # tasks[t]) =>
                tasks'[t] = NoTask /\ finished'.posts = 1]_vars

C10_Witness ==
    /\ finished.posts = 1
    /\ finished.outcome.kind = "timeout"
    /\ finished.pc = "done"

\* C11: eventual convergence.  Once the loop has been started, if from some
\* point on no post ends otherwise than with a decodable 200 (the role set
\* stops changing by itself: its changes are bounded), then the role table
\* of the remote store eventually equals the roles of the guild, for good.
FailedCall == \E t \in TaskIds : \E o \in Outcomes \ {Success} : Respond(t, o)
Converged == remoteRoles = ToSet(RolesData(roles[GuildA]))
C11_EventualConvergence ==
    (<>IsRunning /\ <>[][~FailedCall]_vars) => <>[]Converged

\* C12: idempotence.  A full-guild role sync posted while the guild's roles
\* are those an earlier sync carried sends the same request as that sync;
\* and a sync answered 200 by a store that already holds the list it posted
\* returns created = updated = deleted = 0 and leaves the store as it was.
SamePayloadAsBefore(t) ==
    \A x \in Observed :
        (/\ x.req.endpoint = "/sync_guild_roles"
         /\ x.guild = tasks'[t].guild
         /\ ToSet(x.req.roles) = {RoleJson(r) : r \in roles'[x.guild]})
        => tasks'[t].req = x.req
NothingToDo(result) ==
    /\ ~result.isNone
    /\ Get(result.dict, "created", -1) = 0
    /\ Get(result.dict, "updated", -1) = 0
    /\ Get(result.dict, "deleted", -1) = 0
C12_Idempotence ==
    [][\A t \in TaskIds :
          /\ (Posts(t) /\ tasks'[t].req.endpoint = "/sync_guild_roles")
                => SamePayloadAsBefore(t)
          /\ (/\ tasks[t].pc = "post"
              /\ tasks[t].req.endpoint = "/sync_guild_roles"
              /\ tasks'[t] = NoTask
              /\ finished'.req = tasks[t].req
              /\ finished'.outcome = Success
              /\ remoteRoles = ToSet(tasks[t].req.roles))
                => NothingToDo(finished'.result) /\ remoteRoles' = remoteRoles
     ]_vars
\* A tick's sync that found the store already holding the guild's roles.
C12_Witness ==
    /\ finished.kind = "periodic_role_sync"
    /\ finished.outcome = Success
    /\ NothingToDo(finished.result)
    /\ Get(finished.result.dict, "total", 0) = Len(finished.req.roles)
    /\ Len(finished.req.roles) > 0
    /\ remoteRoles = ToSet(finished.req.roles)

\* C13: single scheduler.  However guild-ready events interleave, start() is
\* never called on a loop whose task is alive (the call that would ask for a
\* second loop task, which tasks.loop refuses with RuntimeError), and the
\* loop is started only in a step in which an on_ready handler ends.
LoopStarts == ~IsRunning /\ loop' = "before_loop"
OnReadyEnds ==
    /\ finished'.kind = "on_ready"
    /\ finished'.pc = "done"
    /\ \/ nEvents' # nEvents
       \/ \E t \in Slots : tasks[t].kind = "on_ready" /\ tasks'[t] = NoTask
C13_SingleScheduler ==
    /\ [](\A x \in Observed : x.exc # "RuntimeError")
    /\ [][LoopStarts => OnReadyEnds]_vars
\* The loop has been started by one on_ready handler while another is still
\* suspended in its initial sync.
C13_Witness ==
    /\ IsRunning
    /\ finished.kind = "on_ready" /\ finished.pc = "done"
    /\ \E t \in Slots : tasks[t].kind = "on_ready" /\ tasks[t].pc = "post"

\* C14: no tick after cancellation.  Once cog_unload has cancelled the loop,
\* the loop's body never runs again: no tick fires and no tick posts.
C14_NoTickAfterCancel ==
    [][unloaded => (nTicks' = nTicks /\ ~Posts(LoopTask))]_vars

\* C15: cancellation does not interrupt in-flight work.  A tick's sync that
\* has posted and is no longer waiting has had its call end (a response, a
\* timeout, a transport error) and has processed that outcome: it was never
\* cut off at its await by the cancellation of the loop.
C15_InFlightNotInterrupted ==
    \A x \in Observed :
        (x.kind = "periodic_role_sync" /\ x.posts > 0 /\ x.pc # "post")
        => (x.outcome # NoOutcome /\ x.exc # "CancelledError")

\* C16: startup race guard.  The body of the loop has run, or is running,
\* only if the gateway has reported ready: the first tick, and so every
\* tick's sync, comes after the ready state.
C16_StartupRaceGuard ==
    (nTicks > 0 \/ tasks[LoopTask] # NoTask
        \/ finished.kind = "periodic_role_sync"
        \/ loop \in {"sleeping", "running", "failed"})
    => botReady
\* The first tick has run and its sync is in flight.
C16_Witness ==
    /\ botReady
    /\ nTicks = 1
    /\ loop = "running"
    /\ tasks[LoopTask].kind = "periodic_role_sync"
    /\ tasks[LoopTask].pc = "post"

\* C17: tick action.  A tick whose configured guild is among the bot's guilds
\* makes exactly one post, POST /sync_guild_roles for that guild; a tick
\* without such a guild makes no call; and no tick's sync is ever for a
\* guild other than the configured one.
C17_TickAction ==
    \A x \in Observed :
        x.kind = "periodic_role_sync" =>
            IF \E g \in botGuilds : Str(g) = guild_id
            THEN /\ x.posts = 1
                 /\ x.req.endpoint = "/sync_guild_roles"
                 /\ x.req.timeout = GuildRolesTimeout
                 /\ x.guild \in botGuilds
                 /\ Str(x.guild) = guild_id
            ELSE x.posts = 0 /\ x.req = NoReq
\* A tick has posted for the configured guild while the bot is also in
\* another guild, which has roles of its own.
C17_Witness ==
    /\ tasks[LoopTask].kind = "periodic_role_sync"
    /\ tasks[LoopTask].pc = "post"
    /\ Str(tasks[LoopTask].guild) = guild_id
    /\ GuildB \in botGuilds
    /\ roles[GuildB] # {}

\* C18: role created / deleted routing.  The handler of every role-created
\* and role-deleted event of the configured guild posts, whatever the role:
\* exactly one request, the full-guild POST /sync_guild_roles, never a
\* request for a single entity.
C18_CreateDeleteRouting ==
    \A x \in Observed :
        (/\ x.kind \in {"on_guild_role_create", "on_guild_role_delete"}
         /\ Str(x.guild) = guild_id)
        => /\ x.posts = 1
           /\ x.req.endpoint = "/sync_guild_roles"
           /\ x.req.member = 0
           /\ x.req.role_ids = <<>>
           /\ x.req.timeout = GuildRolesTimeout
\* A role-deleted event of the configured guild whose full sync has ended,
\* and which carried the roles that were left.
C18_Witness ==
    /\ finished.kind = "on_guild_role_delete"
    /\ Str(finished.guild) = guild_id
    /\ finished.posts = 1
    /\ finished.pc = "done"
    /\ Len(finished.req.roles) = 1

\* C19: single-member syncs are ungated.  A member-updated event of the
\* configured guild that changed the member's role set, and a /sync_my_roles
\* past its defer in the configured guild, have each made their one
\* POST /sync_user_roles, whether or not a full-guild sync was in flight
\* when they arrived: none is dropped or held back.
C19_MemberSyncsUngated ==
    \A x \in Observed :
        (/\ Str(x.guild) = guild_id
         /\ \/ /\ x.kind = "on_member_update"
               /\ ToSet(x.memBefore) # ToSet(x.memAfter)
            \/ x.kind = "sync_my_roles_command" /\ x.pc # "defer")
        => /\ x.posts = 1
           /\ x.req.endpoint = "/sync_user_roles"
           /\ x.req.member = MemberId
\* The second of two events is a member update that arrived while the
\* full-guild sync of the first was in flight, and both posts are out.
C19_Witness ==
    /\ nEvents = 2
    /\ tasks[1].pc = "post"
    /\ tasks[1].req.endpoint = "/sync_guild_roles"
    /\ tasks[2].kind = "on_member_update"
    /\ tasks[2].pc = "post"
    /\ tasks[2].req.endpoint = "/sync_user_roles"

\* C20: command scope violation.  A /sync_roles, /sync_my_roles or
\* /sync_members invoked outside any guild, or in a guild other than the
\* configured one, once past its defer has ended with one reply, a
\* rejection, and has made no remote call.
Rejections == {ServerOnly, ConfiguredOnly}
C20_CommandScope ==
    \A x \in Observed :
        (/\ x.kind \in Commands
         /\ x.pc # "defer"
         /\ x.guild = NoGuild \/ Str(x.guild) # guild_id)
        => /\ x.pc = "done"
           /\ x.posts = 0
           /\ x.req = NoReq
           /\ Len(x.replies) = 1
           /\ x.replies[1] \in Rejections
           /\ x.guild = NoGuild => x.replies[1] = ServerOnly
           /\ x.guild # NoGuild => x.replies[1] = ConfiguredOnly
\* /sync_members was invoked in a guild that is not the configured one, of a
\* bot that is configured for another of its guilds, and was rejected.
C20_Witness ==
    /\ finished.kind = "sync_members_command"
    /\ finished.guild = GuildB
    /\ guild_id = Str(GuildA)
    /\ finished.replies = <<ConfiguredOnly>>
    /\ finished.posts = 0

\* C21: manual failure reporting.  A /sync_roles or /sync_members that has
\* posted and returned tells its caller that the sync failed exactly when
\* its post did not end with a 200 response; after a 200, whatever the
\* body, its last message is the success message with the counts.
SaysFailed(x) ==
    x.replies # <<>> /\
    x.replies[Len(x.replies)].text
        \in {"Role sync failed. Check bot logs for details.",
             "Member sync failed. Check bot logs for details."}
SaysComplete(x) ==
    x.replies # <<>> /\
    x.replies[Len(x.replies)].text
        \in {"Role sync complete!", "Member sync complete!"}
C21_ManualFailureReporting ==
    \A x \in Observed :
        (/\ x.kind \in {"sync_roles_command", "sync_members_command"}
         /\ x.posts > 0
         /\ x.pc = "done")
        => IF x.outcome.kind = "response" /\ x.outcome.status_code = 200
           THEN SaysComplete(x)
           ELSE SaysFailed(x)

\* C22: status classification.  Whichever of the three _sync_* methods made
\* the post, a response with a status other than 200 and 404 gives the same
\* failure result (None) and exactly one error record, which carries the
\* status code; a timeout or a transport error gives None and one error
\* record too.
ErrorLogs(x) == {i \in DOMAIN x.logs : x.logs[i].level = "error"}
C22_StatusClassification ==
    \A x \in Observed :
        (x.posts > 0 /\ x.pc # "post") =>
            /\ (x.outcome.kind = "response"
                  /\ x.outcome.status_code \notin {200, 404})
               => /\ x.pc = "done"
                  /\ x.result = None
                  /\ Cardinality(ErrorLogs(x)) = 1
                  /\ \A i \in ErrorLogs(x) :
                         x.logs[i].status_code = x.outcome.status_code
            /\ x.outcome.kind \in {"timeout", "request_error"}
               => /\ x.pc = "done"
                  /\ x.result = None
                  /\ Cardinality(ErrorLogs(x)) = 1
\* /sync_members whose post was answered 201, and was reported as failed.
C22_Witness ==
    /\ finished.req.endpoint = "/sync_guild_members"
    /\ finished.outcome.status_code = 201
    /\ finished.result = None
    /\ \E i \in DOMAIN finished.logs :
           finished.logs[i] = Log("error", "Failed to sync guild members", 201)

\* C23 (as claimed): guarded scheduler start.  The loop has been started only
\* if the bot is in a guild whose id is the configured id, and it is started
\* only in a step in which an on_ready handler ends after its sync returned.
OnReadyReturns ==
    /\ finished'.kind = "on_ready"
    /\ finished'.pc = "done"
    /\ \/ nEvents' # nEvents /\ botReady' /\ tasks' = tasks
       \/ \E t \in Slots : /\ tasks[t].kind = "on_ready"
                           /\ tasks[t].pc = "post"
                           /\ tasks'[t] = NoTask
                           /\ finished'.outcome # NoOutcome
C23_GuardedStart ==
    /\ [](loop # "idle" => \E g \in botGuilds : Str(g) = guild_id)
    /\ [][LoopStarts => OnReadyReturns]_vars
\* C23 (amended): every on_ready that returns leaves the loop running,
\* whether or not the bot is in the configured guild, and the loop is
\* started only in a step in which an on_ready handler returns: at once when
\* no guild matched, and after the sync has returned when one did.
C23_StartAfterOnReady ==
    [][/\ LoopStarts => OnReadyReturns
       /\ OnReadyReturns => loop' \in {"before_loop", "sleeping", "running"}
      ]_vars
\* The loop was started by an on_ready of a bot that is not in the
\* configured guild, and has ticked without a call.
C23_Witness ==
    /\ ~(\E g \in botGuilds : Str(g) = guild_id)
    /\ loop = "sleeping"
    /\ nTicks = 1
    /\ finished.kind = "periodic_role_sync"
    /\ finished.posts = 0

C25_NoStaleOverwrite ==
    [][(Converged /\ roles' = roles) => Converged']_vars
\* C26: scheduler start is independent of the initial sync's outcome.  Once
\* an on_ready handler that synced the configured guild has ended, however
\* its post ended, the loop has been started.
C26_StartWhateverOutcome ==
    \A x \in Observed :
        (x.kind = "on_ready" /\ x.posts > 0 /\ x.pc # "post")
        => loop # "idle"

\* C27: reconciliation covers roles only.  A tick and an on_ready handler
\* post nothing but POST /sync_guild_roles; and the role set the store holds
\* for the member changes only when a post of on_member_update or of
\* /sync_my_roles ends: no tick repairs it.
MemberSyncEnds ==
    \E t \in Slots : /\ tasks[t].kind \in {"on_member_update",
                                          "sync_my_roles_command"}
                     /\ tasks[t].pc = "post"
                     /\ tasks[t].req.endpoint = "/sync_user_roles"
                     /\ tasks'[t] = NoTask
C27_RolesOnly ==
    /\ [](\A x \in Observed :
            x.kind \in {"periodic_role_sync", "on_ready"}
            => /\ x.req.endpoint \in {"", "/sync_guild_roles"}
               /\ x.req.member = 0
               /\ x.req.role_ids = <<>>
               /\ x.req.members = <<>>)
    /\ [][remoteMember' # remoteMember => MemberSyncEnds]_vars
\* The member's roles changed and their sync did not reach the store; the
\* tick that followed succeeded and left the member's roles in the store
\* as they were.
C27_Witness ==
    /\ finished.kind = "periodic_role_sync"
    /\ finished.outcome = Success
    /\ memberRoles[GuildA] = <<1, 2>>
    /\ remoteMember # ToSet(RoleIds(memberRoles[GuildA]))
    /\ remoteRoles = ToSet(finished.req.roles)
    /\ \A t \in TaskIds : tasks[t] = NoTask

\* C28: 404 is benign only per member.  A 404 to POST /sync_guild_roles or
\* POST /sync_guild_members is a failure like any other rejected status:
\* the result is None, one error record carries the 404, and a manual
\* caller is told that the sync failed.  Only a 404 to POST /sync_user_roles
\* leaves no error record.
C28_NotFoundPerMember ==
    \A x \in Observed :
        (/\ x.posts > 0 /\ x.pc # "post"
         /\ x.outcome.kind = "response" /\ x.outcome.status_code = 404)
        => /\ x.pc = "done"
           /\ x.result = None
           /\ IF x.req.endpoint = "/sync_user_roles"
              THEN ErrorLogs(x) = {}
              ELSE /\ Cardinality(ErrorLogs(x)) = 1
                   /\ \A i \in ErrorLogs(x) : x.logs[i].status_code = 404
                   /\ x.kind \in Commands => SaysFailed(x)
\* /sync_roles whose post was answered 404: an error record with the status,
\* and the failure message to the caller.
C28_Witness ==
    /\ finished.kind = "sync_roles_command"
    /\ finished.outcome.status_code = 404
    /\ finished.logs = <<Log("error", "Failed to sync guild roles", 404)>>
    /\ SaysFailed(finished)

====
